---------------------------- MODULE Spec2Model ----------------------------
(***************************************************************************)
(* ECHONET Lite probe (src/src/raw_echonet.py): the frame codec            *)
(* (create_echonet_packet, parse_echonet_response), the property           *)
(* interpreter (format_property_value) and the probing sweep               *)
(* (probe_echonet_device, main).                                           *)
(*                                                                         *)
(* Byte strings are sequences of integers 0..255.  Python indexes from 0,  *)
(* TLA+ sequences from 1: At(data, i) is Python's data[i].                 *)
(***************************************************************************)
EXTENDS Integers, Sequences, FiniteSets, TLC

VARIABLES
    \* ---- codec harness (CodecSpec) ----
    cpc,        \* position of the codec harness
    frame,      \* the arguments given to create_echonet_packet
    packet,     \* what create_echonet_packet returned
    data,       \* the bytes given to parse_echonet_response
    parsed,     \* what parse_echonet_response returned
    \* ---- interpreter harness (FormatSpec) ----
    fpc,        \* position of the interpreter harness
    fmtIn,      \* the arguments (epc, edt) given to format_property_value
    fmtOut,     \* what format_property_value returned
    fmtList,    \* the readings collected from a response holding that property
    \* ---- probe_echonet_device / main (Spec) ----
    pc,                   \* position in probe_echonet_device / main
    pairIdx,              \* index of the current (device, property set) pair
    sockOpen,             \* the UDP socket object is open
    opens, closes,        \* number of socket.socket() / sock.close() calls
    successful_readings,  \* the list successful_readings
    readingPair,          \* for each reading, the pair during which it was appended
    inbox,                \* datagrams delivered to the socket, not yet read
    responses,            \* number of datagrams the network delivered so far
    sendCalls,            \* per pair, the number of sock.sendto calls
    outstanding,          \* pairs whose request was sent and has not resolved
    lastOutcome,          \* the most recently resolved pair and how it resolved
    lastResponse,         \* the datagram the most recent recvfrom returned,
                          \* the pair it answers and the pair that read it
    result,               \* return value of probe_echonet_device
    exitCode              \* return value of main

codecVars == <<cpc, frame, packet, data, parsed>>
fmtVars == <<fpc, fmtIn, fmtOut, fmtList>>
probeVars == <<pc, pairIdx, sockOpen, opens, closes, successful_readings,
               readingPair, inbox, responses, sendCalls, outstanding,
               lastOutcome, lastResponse, result, exitCode>>
vars == <<cpc, frame, packet, data, parsed, fpc, fmtIn, fmtOut, fmtList,
          pc, pairIdx, sockOpen, opens, closes, successful_readings,
          readingPair, inbox, responses, sendCalls, outstanding,
          lastOutcome, lastResponse, result, exitCode>>

(***************************************************************************)
(* Constants of the program                                                *)
(***************************************************************************)
EPC_OPERATIONAL_STATUS == 128
EPC_INSTALLATION_LOCATION == 129
EPC_MANUFACTURER_CODE == 138
EPC_POWER_CONSUMPTION == 132
EPC_CUMULATIVE_POWER == 133
EPC_INSTANTANEOUS_POWER == 224
EPC_BATTERY_CHARGE_DISCHARGE == 211
ESV_GET == 98
HEADER_LEN == 12

\* Python's None.
None == [none |-> TRUE]

\* data[i], 0-based.
At(s, i) == s[i + 1]

\* data[a:b], 0-based, clamped to the sequence like a Python slice.
Slice(s, a, b) ==
    LET hi == IF b > Len(s) THEN Len(s) ELSE b
    IN  IF a >= hi THEN <<>> ELSE SubSeq(s, a + 1, hi)

IsByte(b) == b \in 0..255

(***************************************************************************)
(* create_echonet_packet                                                   *)
(***************************************************************************)
\* bytearray(...) and bytearray.extend raise ValueError for a value outside
\* range(256).
ValueError == <<-1>>

\* A header with the transaction id in little-endian order.
PacketHeaderSwappedTid(tid, eojgc, eojcc, eojci, esv, props) ==
    <<16, 129, tid % 256, (tid \div 256) % 256, 5, 255, 1,
      eojgc, eojcc, eojci, esv, Len(props)>>

\* The 12-byte header.
PacketHeader(tid, eojgc, eojcc, eojci, esv, props) ==
    LET ehd1 == 16
        ehd2 == 129
        tid_high == (tid \div 256) % 256
        tid_low == tid % 256
        seoj1 == 5
        seoj2 == 255
        seoj3 == 1
        opc == Len(props)
    IN  <<ehd1, ehd2, tid_high, tid_low, seoj1, seoj2, seoj3,
          eojgc, eojcc, eojci, esv, opc>>

\* The loop body leaving out the length byte of an empty property.
ExtendWithPropNoEmptyLength(pkt, prop) ==
    IF prop[2] > 0 THEN pkt \o <<prop[1], prop[2]>> \o SubSeq(prop, 3, Len(prop))
    ELSE pkt \o <<prop[1]>>

\* One iteration of "for prop in props": prop is (epc, pdc, edt bytes...).
ExtendWithProp(pkt, prop) ==
    LET epc == prop[1]
        pdc == prop[2]
        edt == SubSeq(prop, 3, Len(prop))
    IN  IF pdc > 0 THEN pkt \o <<epc, pdc>> \o edt ELSE pkt \o <<epc, pdc>>

RECURSIVE AddProps(_, _, _)
AddProps(pkt, props, n) ==
    IF n > Len(props) THEN pkt
    ELSE AddProps(ExtendWithProp(pkt, props[n]), props, n + 1)

create_echonet_packet(tid, eojgc, eojcc, eojci, esv, props) ==
    LET pkt == AddProps(PacketHeader(tid, eojgc, eojcc, eojci, esv, props), props, 1)
    IN  IF \A i \in 1..Len(pkt) : IsByte(pkt[i]) THEN pkt ELSE ValueError

(***************************************************************************)
(* parse_echonet_response                                                  *)
(***************************************************************************)
\* The header check off by one: a 12-byte datagram is refused.
HeaderTooShortOffByOne(d) == Len(d) <= 12

\* "if len(data) < 12: return None"
HeaderTooShort(d) == Len(d) < HEADER_LEN

\* The check for code and length off by one: a lone last byte passes it.
NoRoomForCodeAndLengthOffByOne(d, idx) == idx + 2 > Len(d) + 1

\* "if idx + 2 > len(data): break"
NoRoomForCodeAndLength(d, idx) == idx + 2 > Len(d)

\* The payload check off by one: a payload one byte short is accepted.
NoRoomForPayloadOffByOne(d, idx, pdc) == idx + 2 + pdc > Len(d) + 1

\* "if idx + 2 + pdc > len(data): break"
NoRoomForPayload(d, idx, pdc) == idx + 2 + pdc > Len(d)

\* The loop "for i in range(opc)", from iteration i at offset idx.  raised
\* records an IndexError (a read at an offset >= len(data)), which the
\* function's "except Exception" turns into None.
RECURSIVE ParseProps(_, _, _, _, _)
ParseProps(d, opc, i, idx, props) ==
    IF i >= opc THEN [props |-> props, idx |-> idx, raised |-> FALSE]
    ELSE IF NoRoomForCodeAndLength(d, idx)
    THEN [props |-> props, idx |-> idx, raised |-> FALSE]
    ELSE IF idx + 1 >= Len(d)
    THEN [props |-> props, idx |-> idx, raised |-> TRUE]
    ELSE LET epc == At(d, idx)
             pdc == At(d, idx + 1)
         IN  IF NoRoomForPayload(d, idx, pdc)
             THEN [props |-> props, idx |-> idx, raised |-> FALSE]
             ELSE ParseProps(d, opc, i + 1, idx + 2 + pdc,
                     Append(props, <<epc, pdc, Slice(d, idx + 2, idx + 2 + pdc)>>))

parse_echonet_response(d) ==
    IF HeaderTooShort(d) THEN None
    ELSE IF Len(d) < 12 THEN None   \* data[11] raises IndexError, caught
    ELSE LET loop == ParseProps(d, At(d, 11), 0, 12, <<>>)
         IN  IF loop.raised THEN None
             ELSE [ehd |-> At(d, 0) * 256 + At(d, 1),
                   tid |-> At(d, 2) * 256 + At(d, 3),
                   seoj |-> <<At(d, 4), At(d, 5), At(d, 6)>>,
                   deoj |-> <<At(d, 7), At(d, 8), At(d, 9)>>,
                   esv |-> At(d, 10),
                   opc |-> At(d, 11),
                   props |-> loop.props]

(***************************************************************************)
(* format_property_value                                                   *)
(***************************************************************************)
HexLower == <<"0", "1", "2", "3", "4", "5", "6", "7",
              "8", "9", "a", "b", "c", "d", "e", "f">>
HexUpper == <<"0", "1", "2", "3", "4", "5", "6", "7",
              "8", "9", "A", "B", "C", "D", "E", "F">>

\* binascii.hexlify(edt).decode()
RECURSIVE hexlify(_)
hexlify(edt) ==
    IF edt = <<>> THEN ""
    ELSE HexLower[(edt[1] \div 16) + 1] \o HexLower[(edt[1] % 16) + 1]
         \o hexlify(Tail(edt))

\* f"{epc:02X}"
Hex02X(b) == HexUpper[(b \div 16) + 1] \o HexUpper[(b % 16) + 1]

RECURSIVE Pow256(_)
Pow256(n) == IF n = 0 THEN 1 ELSE 256 * Pow256(n - 1)

\* int.from_bytes(edt, byteorder='little')
RECURSIVE from_bytes_little(_)
from_bytes_little(edt) ==
    IF edt = <<>> THEN 0 ELSE edt[1] + 256 * from_bytes_little(Tail(edt))

\* int.from_bytes(edt, byteorder='big')
RECURSIVE from_bytes_unsigned(_)
from_bytes_unsigned(edt) ==
    IF edt = <<>> THEN 0
    ELSE from_bytes_unsigned(SubSeq(edt, 1, Len(edt) - 1)) * 256 + edt[Len(edt)]

\* int.from_bytes(edt, byteorder='big') where signed=True was meant.
from_bytes_sign_dropped(edt) == from_bytes_unsigned(edt)

\* int.from_bytes(edt, byteorder='big', signed=True)
from_bytes_signed(edt) ==
    LET u == from_bytes_unsigned(edt)
    IN  IF Len(edt) > 0 /\ edt[1] >= 128 THEN u - Pow256(Len(edt)) ELSE u

\* An exception leaving format_property_value instead of a string.
Raised == "<IndexError raised>"

\* The function without its "except Exception": the IndexError goes up.
ErrorPropagates == Raised

\* What "except Exception as e" formats when edt[0] raises IndexError.
ErrorFormatting == "Error formatting: index out of range"

RawDump(edt) == "Raw: " \o hexlify(edt)

format_property_value(epc, edt) ==
    IF epc = EPC_OPERATIONAL_STATUS
    THEN IF Len(edt) = 0 THEN ErrorFormatting
         ELSE IF At(edt, 0) = 48 THEN "ON" ELSE "OFF"
    ELSE IF epc = EPC_MANUFACTURER_CODE
    THEN "Manufacturer: " \o hexlify(edt)
    ELSE IF epc = EPC_POWER_CONSUMPTION /\ Len(edt) >= 2
    THEN ToString(from_bytes_unsigned(edt)) \o " W"
    ELSE IF epc = EPC_CUMULATIVE_POWER /\ Len(edt) >= 4
    THEN ToString(from_bytes_unsigned(edt)) \o " kWh"
    ELSE IF epc = EPC_INSTANTANEOUS_POWER /\ Len(edt) >= 2
    THEN ToString(from_bytes_unsigned(edt)) \o " W"
    ELSE IF epc = EPC_BATTERY_CHARGE_DISCHARGE /\ Len(edt) >= 2
    THEN LET val == from_bytes_signed(edt)
         IN  IF val >= 0 THEN "Charging: " \o ToString(val) \o " W"
             ELSE "Discharging: " \o ToString(-val) \o " W"
    ELSE RawDump(edt)

(***************************************************************************)
(* Codec harness: the codec applied to bounded inputs                      *)
(***************************************************************************)
\* Largest number of properties in a frame given to create_echonet_packet.
MaxProps == 2
\* Largest number of bytes after the header in a raw datagram.
MaxRawTail == 3

RECURSIVE SeqsUpTo(_, _)
SeqsUpTo(S, n) ==
    IF n = 0 THEN {<<>>}
    ELSE LET shorter == SeqsUpTo(S, n - 1)
         IN  shorter \cup {Append(s, x) : s \in {t \in shorter : Len(t) = n - 1}, x \in S}

\* Well-formed properties (epc, pdc, edt...) with pdc = len(edt).
SampleProps == { <<128, 0>>, <<128, 1, 48>>, <<132, 2, 0, 150>>,
                 <<211, 2, 255, 246>> }
SampleTids == {258, 65535}
SampleDeojs == { <<2, 125, 1>>, <<0, 17, 1>> }
SampleEsvs == {98, 114}

Frames == [tid : SampleTids, deoj : SampleDeojs, esv : SampleEsvs,
           props : SeqsUpTo(SampleProps, MaxProps)]

\* Datagrams that no encoder produced: a header with any declared count,
\* then any bytes.
RawHeader(opc) == <<16, 129, 0, 1, 2, 125, 1, 5, 255, 1, 114, opc>>
RawInputs == { RawHeader(opc) \o t :
                 opc \in {0, 1, 2, 255}, t \in SeqsUpTo({0, 1, 128}, MaxRawTail) }

NoFrame == [tid |-> 0, deoj |-> <<0, 0, 0>>, esv |-> 0, props |-> <<>>]

CodecIdle ==
    /\ cpc = "idle"
    /\ frame = NoFrame
    /\ packet = <<>>
    /\ data = <<>>
    /\ parsed = None

ProbeIdle ==
    /\ pc = "idle"
    /\ pairIdx = 0
    /\ sockOpen = FALSE
    /\ opens = 0
    /\ closes = 0
    /\ successful_readings = <<>>
    /\ readingPair = <<>>
    /\ inbox = <<>>
    /\ responses = 0
    /\ sendCalls = <<>>
    /\ outstanding = {}
    /\ lastOutcome = [pair |-> -1, how |-> "none"]
    /\ lastResponse = [data |-> <<>>, forPair |-> -1, atPair |-> -1]
    /\ result = "unset"
    /\ exitCode = -1

FormatIdle ==
    /\ fpc = "idle"
    /\ fmtIn = [epc |-> 0, edt |-> <<>>]
    /\ fmtOut = ""
    /\ fmtList = <<>>

CodecInit ==
    /\ cpc = "start"
    /\ frame \in Frames
    /\ packet = <<>>
    /\ data = <<>>
    /\ parsed = None
    /\ ProbeIdle
    /\ FormatIdle

\* packet = create_echonet_packet(tid, eojgc, eojcc, eojci, esv, props)
Encode ==
    /\ cpc = "start"
    /\ packet' = create_echonet_packet(frame.tid, frame.deoj[1], frame.deoj[2],
                                       frame.deoj[3], frame.esv, frame.props)
    /\ cpc' = "encoded"
    /\ UNCHANGED <<frame, data, parsed>>
    /\ UNCHANGED probeVars
    /\ UNCHANGED fmtVars

\* A datagram from the network instead of from the encoder.
RawInput ==
    /\ cpc = "start"
    /\ \E d \in RawInputs : packet' = d
    /\ frame' = NoFrame
    /\ cpc' = "raw"
    /\ UNCHANGED <<data, parsed>>
    /\ UNCHANGED probeVars
    /\ UNCHANGED fmtVars

\* The first k bytes of the datagram reach the parser (k = len: all of it).
Truncate ==
    /\ cpc \in {"encoded", "raw"}
    /\ \E k \in 0..Len(packet) : data' = Slice(packet, 0, k)
    /\ cpc' = IF cpc = "encoded" THEN "cut" ELSE "rawcut"
    /\ UNCHANGED <<frame, packet, parsed>>
    /\ UNCHANGED probeVars
    /\ UNCHANGED fmtVars

\* parsed = parse_echonet_response(data)
Parse ==
    /\ cpc \in {"cut", "rawcut"}
    /\ parsed' = parse_echonet_response(data)
    /\ cpc' = IF cpc = "cut" THEN "parsed" ELSE "rawparsed"
    /\ UNCHANGED <<frame, packet, data>>
    /\ UNCHANGED probeVars
    /\ UNCHANGED fmtVars

CodecNext == Encode \/ RawInput \/ Truncate \/ Parse

CodecSpec == CodecInit /\ [][CodecNext]_vars


(***************************************************************************)
(* probe_echonet_device and main                                           *)
(***************************************************************************)
\* Device types to probe: (group, class, instance, name).
device_types == <<
    <<2, 125, 1, "Storage Battery">>,
    <<2, 121, 1, "Home Solar Power">>,
    <<2, 136, 1, "Smart Electric Energy Meter">>,
    <<5, 255, 1, "Controller">>,
    <<0, 17, 1, "Temperature Sensor">> >>

\* Properties to request for each device type: (epc, pdc).
property_sets == <<
    << <<EPC_OPERATIONAL_STATUS, 0>>, <<EPC_INSTALLATION_LOCATION, 0>>,
       <<EPC_MANUFACTURER_CODE, 0>> >>,
    << <<EPC_POWER_CONSUMPTION, 0>>, <<EPC_CUMULATIVE_POWER, 0>> >>,
    << <<EPC_INSTANTANEOUS_POWER, 0>>, <<EPC_BATTERY_CHARGE_DISCHARGE, 0>> >> >>

\* The nested loops visit the pairs in this order: pair p is device
\* p \div 3 (outer loop) with property set p % 3 (inner loop).
NumPairs == Len(device_types) * Len(property_sets)
Pairs == 0..(NumPairs - 1)
DeviceOf(p) == device_types[(p \div Len(property_sets)) + 1]
PropSetOf(p) == property_sets[(p % Len(property_sets)) + 1]

\* An iteration that stays on its pair.
NextPairRetry(p) == p

\* The loops skipping every other pair.
NextPairSkipping(p) == p + 2

\* The pair the loops go to after pair p.
NextPair(p) == p + 1

\* The request of pair p: create_echonet_packet(tid, ..., 0x62, prop_set).
RequestOf(p, tid) ==
    create_echonet_packet(tid, DeviceOf(p)[1], DeviceOf(p)[2], DeviceOf(p)[3],
                          ESV_GET, PropSetOf(p))

\* A handler of socket.timeout that sends the request again.
PcAfterTimeoutRetry == "send"

\* "except socket.timeout: print(...)": the iteration goes on to its sleep.
PcAfterTimeout == "sleep"

\* The program going on to the pause without waiting for a response.
PcAfterSendNoWait == "sleep"

\* After sock.sendto returns the program blocks in sock.recvfrom.
PcAfterSend == "recv"

\* "if pdc >= 0" instead of "if pdc > 0".
HasDataOrEmpty(pdc) == pdc >= 0

\* "if pdc > 0:  # Valid response with data"
HasData(pdc) == pdc > 0

\* list.insert(0, r) instead of list.append(r).
PrependReading(list, r) == <<r>> \o list

\* successful_readings.append(r)
AppendReading(list, r) == Append(list, r)

Reading(device_name, epc, formatted_value) ==
    <<device_name, "EPC 0x" \o Hex02X(epc), formatted_value>>

\* "for prop in parsed['props']", from property n on.
RECURSIVE ProcessProps(_, _, _, _)
ProcessProps(list, props, n, device_name) ==
    IF n > Len(props) THEN list
    ELSE LET epc == props[n][1]
             pdc == props[n][2]
             edt == props[n][3]
             formatted_value == format_property_value(epc, edt)
         IN  IF formatted_value = Raised
             THEN list   \* the exception leaves the loop; line 223 catches it
             ELSE ProcessProps(
                 IF HasData(pdc)
                 THEN AppendReading(list, Reading(device_name, epc, formatted_value))
                 ELSE list,
                 props, n + 1, device_name)

\* Lines 206-220: parse the response and collect its readings.
HandleResponse(list, response, device_name) ==
    LET p == parse_echonet_response(response)
    IN  IF p # None THEN ProcessProps(list, p.props, 1, device_name) ELSE list

\* "if successful_readings:": a list is truthy when it is not empty.
Truthy(list) == Len(list) > 0

\* "return 1 if result else 0"
ExitStatusInverted(r) == IF r = "True" THEN 1 ELSE 0

\* "return 0 if result else 1"
ExitStatus(r) == IF r = "True" THEN 0 ELSE 1

(***************************************************************************)
(* The network: what recvfrom can return                                   *)
(***************************************************************************)
\* Largest number of datagrams that reach the socket during one run.
MaxResponses == 2

\* A response frame from the device of pair p: its identity as source, the
\* controller as destination.
ResponseFrame(p, tid, esv, body, opc) ==
    <<16, 129, (tid \div 256) % 256, tid % 256,
      DeviceOf(p)[1], DeviceOf(p)[2], DeviceOf(p)[3], 5, 255, 1, esv, opc>> \o body

\* Operational status ON and a 2-byte power consumption of 150.
MeterReply(p) ==
    ResponseFrame(p, 258, 114, <<128, 1, 48, 132, 2, 0, 150>>, 2)

\* The datagrams the network may deliver in answer to the request of pair p.
Replies(p) ==
    { MeterReply(p),
      \* the same, its last byte lost
      Slice(MeterReply(p), 0, Len(MeterReply(p)) - 1),
      \* an empty property, then a charge/discharge power of -10
      ResponseFrame(p, 258, 114, <<129, 0, 211, 2, 255, 246>>, 2),
      \* shorter than a header
      <<16, 129, 0>> }

NoResponse == [data |-> <<>>, forPair |-> -1, atPair |-> -1]
NoOutcome == [pair |-> -1, how |-> "none"]
Resolved(how) == [pair |-> pairIdx, how |-> how]

ProbeInit ==
    /\ pc = "start"
    /\ pairIdx = 0
    /\ sockOpen = FALSE
    /\ opens = 0
    /\ closes = 0
    /\ successful_readings = <<>>
    /\ readingPair = <<>>
    /\ inbox = <<>>
    /\ responses = 0
    /\ sendCalls = [p \in Pairs |-> 0]
    /\ outstanding = {}
    /\ lastOutcome = NoOutcome
    /\ lastResponse = NoResponse
    /\ result = "unset"
    /\ exitCode = -1

\* sock = socket.socket(...); sock.settimeout(2.0); successful_readings = []
OpenSocket ==
    /\ pc = "start"
    /\ sockOpen' = TRUE
    /\ opens' = opens + 1
    /\ successful_readings' = <<>>
    /\ pc' = IF NumPairs > 0 THEN "send" ELSE "close"
    /\ UNCHANGED <<pairIdx, closes, readingPair, inbox, responses, sendCalls,
                   outstanding, lastOutcome, lastResponse, result, exitCode>>
    /\ UNCHANGED codecVars
    /\ UNCHANGED fmtVars

\* tid = ...; packet = create_echonet_packet(...); sock.sendto(packet, ...)
\* returns.
SendOk ==
    /\ pc = "send"
    /\ \E tid \in SampleTids : RequestOf(pairIdx, tid) # ValueError
    /\ sendCalls' = [sendCalls EXCEPT ![pairIdx] = @ + 1]
    /\ outstanding' = outstanding \cup {pairIdx}
    /\ pc' = PcAfterSend
    /\ UNCHANGED <<pairIdx, sockOpen, opens, closes, successful_readings,
                   readingPair, inbox, responses, lastOutcome, lastResponse,
                   result, exitCode>>
    /\ UNCHANGED codecVars
    /\ UNCHANGED fmtVars

\* sock.sendto raises (OSError, gaierror): caught by "except Exception".
SendError ==
    /\ pc = "send"
    /\ sendCalls' = [sendCalls EXCEPT ![pairIdx] = @ + 1]
    /\ lastOutcome' = Resolved("send_error")
    /\ pc' = "sleep"
    /\ UNCHANGED <<pairIdx, sockOpen, opens, closes, successful_readings,
                   readingPair, inbox, responses, outstanding,
                   lastResponse, result, exitCode>>
    /\ UNCHANGED codecVars
    /\ UNCHANGED fmtVars

\* The network delivers a datagram to the socket while the program is blocked
\* in recvfrom.  A datagram that finds another one waiting is read by a later
\* pair: it is late for the pair it answers.
Arrive ==
    /\ pc = "recv"
    /\ sockOpen
    /\ responses < MaxResponses
    /\ \E d \in Replies(pairIdx) :
         inbox' = Append(inbox, [data |-> d, forPair |-> pairIdx])
    /\ responses' = responses + 1
    /\ UNCHANGED <<pc, pairIdx, sockOpen, opens, closes, successful_readings,
                   readingPair, sendCalls, outstanding, lastOutcome,
                   lastResponse, result, exitCode>>
    /\ UNCHANGED codecVars
    /\ UNCHANGED fmtVars

\* The answer to a pair whose deadline has fired reaches the socket while the
\* program sleeps before the next pair.
ArriveLate ==
    /\ pc = "sleep"
    /\ lastOutcome.how = "timeout"
    /\ sockOpen
    /\ responses = 0
    /\ inbox' = Append(inbox, [data |-> MeterReply(pairIdx), forPair |-> pairIdx])
    /\ responses' = responses + 1
    /\ UNCHANGED <<pc, pairIdx, sockOpen, opens, closes, successful_readings,
                   readingPair, sendCalls, outstanding, lastOutcome,
                   lastResponse, result, exitCode>>
    /\ UNCHANGED codecVars
    /\ UNCHANGED fmtVars

\* The program is blocked in recvfrom and a datagram is there to return.
DatagramWaiting == pc = "recv" /\ inbox # <<>>

\* The program is blocked in recvfrom and no datagram is there.
NothingWaiting == pc = "recv" /\ inbox = <<>>

\* response, addr = sock.recvfrom(1024) returns a datagram; lines 206-220.
ReceiveResponse ==
    /\ DatagramWaiting
    /\ LET response == Head(inbox).data
           device_name == DeviceOf(pairIdx)[4]
           list == HandleResponse(successful_readings, response, device_name)
       IN  /\ successful_readings' = list
           /\ readingPair' = readingPair \o
                [i \in 1..(Len(list) - Len(successful_readings)) |-> pairIdx]
           /\ lastResponse' = [data |-> response, forPair |-> Head(inbox).forPair,
                               atPair |-> pairIdx]
    /\ inbox' = Tail(inbox)
    /\ outstanding' = outstanding \ {pairIdx}
    /\ lastOutcome' = Resolved("received")
    /\ pc' = "sleep"
    /\ UNCHANGED <<pairIdx, sockOpen, opens, closes, responses, sendCalls, result, exitCode>>
    /\ UNCHANGED codecVars
    /\ UNCHANGED fmtVars

\* recvfrom raises socket.timeout after 2 s without a datagram.
ReceiveTimeout ==
    /\ NothingWaiting
    /\ outstanding' = outstanding \ {pairIdx}
    /\ lastOutcome' = Resolved("timeout")
    /\ pc' = PcAfterTimeout
    /\ UNCHANGED <<pairIdx, sockOpen, opens, closes, successful_readings,
                   readingPair, inbox, responses, sendCalls,
                   lastResponse, result, exitCode>>
    /\ UNCHANGED codecVars
    /\ UNCHANGED fmtVars

\* recvfrom raises another OSError instead of returning a datagram: caught
\* by "except Exception".
ReceiveError ==
    /\ NothingWaiting
    /\ outstanding' = outstanding \ {pairIdx}
    /\ lastOutcome' = Resolved("recv_error")
    /\ pc' = "sleep"
    /\ UNCHANGED <<pairIdx, sockOpen, opens, closes, successful_readings,
                   readingPair, inbox, responses, sendCalls,
                   lastResponse, result, exitCode>>
    /\ UNCHANGED codecVars
    /\ UNCHANGED fmtVars

\* await asyncio.sleep(0.5), then the next iteration of the loops.
Sleep ==
    /\ pc = "sleep"
    /\ pairIdx' = NextPair(pairIdx)
    /\ pc' = IF NextPair(pairIdx) < NumPairs THEN "send" ELSE "close"
    /\ UNCHANGED <<sockOpen, opens, closes, successful_readings, readingPair,
                   inbox, responses, sendCalls, outstanding,
                   lastOutcome, lastResponse, result, exitCode>>
    /\ UNCHANGED codecVars
    /\ UNCHANGED fmtVars

\* The task is cancelled while it awaits asyncio.sleep: CancelledError is a
\* BaseException, no handler of the function catches it and it leaves the
\* function from inside the loops.
Interrupt ==
    /\ pc = "sleep"
    /\ pc' = "interrupted"
    /\ UNCHANGED <<pairIdx, sockOpen, opens, closes, successful_readings,
                   readingPair, inbox, responses, sendCalls, outstanding,
                   lastOutcome, lastResponse, result, exitCode>>
    /\ UNCHANGED codecVars
    /\ UNCHANGED fmtVars

\* sock.close()
CloseSocket ==
    /\ pc = "close"
    /\ sockOpen' = FALSE
    /\ closes' = closes + 1
    /\ pc' = "summary"
    /\ UNCHANGED <<pairIdx, opens, successful_readings, readingPair, inbox,
                   responses, sendCalls, outstanding, lastOutcome,
                   lastResponse, result, exitCode>>
    /\ UNCHANGED codecVars
    /\ UNCHANGED fmtVars

\* "if successful_readings: ... return True else: ... return False"
Summary ==
    /\ pc = "summary"
    /\ result' = IF Truthy(successful_readings) THEN "True" ELSE "False"
    /\ pc' = "returned"
    /\ UNCHANGED <<pairIdx, sockOpen, opens, closes, successful_readings,
                   readingPair, inbox, responses, sendCalls, outstanding,
                   lastOutcome, lastResponse, exitCode>>
    /\ UNCHANGED codecVars
    /\ UNCHANGED fmtVars

\* main: "return 0 if result else 1"
MainReturn ==
    /\ pc = "returned"
    /\ exitCode' = ExitStatus(result)
    /\ pc' = "done"
    /\ UNCHANGED <<pairIdx, sockOpen, opens, closes, successful_readings,
                   readingPair, inbox, responses, sendCalls, outstanding,
                   lastOutcome, lastResponse, result>>
    /\ UNCHANGED codecVars
    /\ UNCHANGED fmtVars

Init == ProbeInit /\ CodecIdle /\ FormatIdle

Next ==
    \/ OpenSocket \/ SendOk \/ SendError \/ Arrive
    \/ ArriveLate
    \/ ReceiveResponse \/ ReceiveTimeout \/ ReceiveError
    \/ Sleep \/ Interrupt \/ CloseSocket \/ Summary \/ MainReturn

Spec == Init /\ [][Next]_vars

(***************************************************************************)
(* Interpreter harness: format_property_value applied to bounded inputs,   *)
(* alone and inside the handling of a response                             *)
(***************************************************************************)
\* Longest payload drawn freely from FormatBytes; longer payloads are these
\* behind two zero bytes, so that every decoded number stays below 2^31.
MaxEdt == 2

\* The six codes the function knows, and two it does not.
FormatCodes == {EPC_OPERATIONAL_STATUS, EPC_MANUFACTURER_CODE, EPC_POWER_CONSUMPTION,
                EPC_CUMULATIVE_POWER, EPC_INSTANTANEOUS_POWER,
                EPC_BATTERY_CHARGE_DISCHARGE, EPC_INSTALLATION_LOCATION, 255}
FormatBytes == {0, 10, 48, 49, 171, 205, 246, 255}
FormatPayloads ==
    LET short == SeqsUpTo(FormatBytes, MaxEdt)
    IN  short \cup {<<0, 0>> \o s : s \in short}
FormatInputs == [epc : FormatCodes, edt : FormatPayloads]

\* A response of the first device with the property under test followed by a
\* charge/discharge power of -10.
ResponseWith(in) ==
    ResponseFrame(0, 258, 114,
                  <<in.epc, Len(in.edt)>> \o in.edt \o <<211, 2, 255, 246>>, 2)

FormatInit ==
    /\ fpc = "start"
    /\ fmtIn \in FormatInputs
    /\ fmtOut = ""
    /\ fmtList = <<>>
    /\ CodecIdle
    /\ ProbeIdle

\* formatted_value = format_property_value(epc, edt)
FormatValue ==
    /\ fpc = "start"
    /\ fmtOut' = format_property_value(fmtIn.epc, fmtIn.edt)
    /\ fpc' = "formatted"
    /\ UNCHANGED <<fmtIn, fmtList>>
    /\ UNCHANGED codecVars
    /\ UNCHANGED probeVars

\* Lines 206-220 on a response that holds the property.
HandleProps ==
    /\ fpc = "formatted"
    /\ fmtList' = HandleResponse(<<>>, ResponseWith(fmtIn), DeviceOf(0)[4])
    /\ fpc' = "handled"
    /\ UNCHANGED <<fmtIn, fmtOut>>
    /\ UNCHANGED codecVars
    /\ UNCHANGED probeVars

FormatNext == FormatValue \/ HandleProps

FormatSpec == FormatInit /\ [][FormatNext]_vars

(***************************************************************************)
(* Claims about the codec (checked under CodecSpec)                        *)
(***************************************************************************)
\* The decoded form of an encoder property (epc, pdc, edt...): (epc, pdc, edt).
AsDecodedProp(p) == <<p[1], p[2], SubSeq(p, 3, Len(p))>>
AsDecodedProps(props) == [i \in 1..Len(props) |-> AsDecodedProp(props[i])]

\* Offset just after property i of props in the encoded frame.
RECURSIVE PropEnd(_, _)
PropEnd(props, i) == IF i = 0 THEN 12 ELSE PropEnd(props, i - 1) + 2 + props[i][2]

\* The number of properties that lie wholly before byte k.
FullyPresent(props, k) == Cardinality({i \in 1..Len(props) : PropEnd(props, i) <= k})

\* C1: decoding the whole output of create_echonet_packet for a well-formed
\* frame gives back the transaction id, the controller's identity 05:FF:01 as
\* source, the destination identity, the service code, the property count and
\* the ordered properties (code, payload length, payload).
C1_RoundTrip ==
    (cpc = "parsed" /\ data = packet) =>
        /\ parsed # None
        /\ parsed.tid = frame.tid
        /\ parsed.seoj = <<5, 255, 1>>
        /\ parsed.deoj = frame.deoj
        /\ parsed.esv = frame.esv
        /\ parsed.opc = Len(frame.props)
        /\ parsed.props = AsDecodedProps(frame.props)

C1_Witness ==
    /\ cpc = "parsed"
    /\ data = packet
    /\ Len(frame.props) = 2
    /\ frame.props[1][2] = 0
    /\ frame.props[2][2] = 2
    /\ frame.tid = 258
    /\ parsed # None
    /\ Len(parsed.props) = 2

\* C2: the first k bytes (12 <= k <= length) of a well-formed encoded frame
\* parse without error to a frame whose properties are exactly the leading
\* properties lying wholly before byte k.
C2_TruncationTolerance ==
    (cpc = "parsed" /\ Len(data) >= 12) =>
        /\ parsed # None
        /\ parsed.props =
             SubSeq(AsDecodedProps(frame.props), 1, FullyPresent(frame.props, Len(data)))

\* A cut inside the payload of the second of two properties.
C2_Witness ==
    /\ cpc = "parsed"
    /\ Len(frame.props) = 2
    /\ frame.props[2][2] = 2
    /\ Len(data) = Len(packet) - 1
    /\ parsed # None
    /\ Len(parsed.props) = 1

\* C3: an input shorter than 12 bytes (the empty one included) parses to
\* None, and an input of 12 bytes or more parses to a frame.
C3_InsufficientData ==
    (cpc \in {"parsed", "rawparsed"}) => ((Len(data) < 12) <=> (parsed = None))

C3_Witness ==
    /\ cpc = "rawparsed"
    /\ Len(data) = 11
    /\ parsed = None

(***************************************************************************)
(* Claims about the sweep (checked under Spec)                             *)
(***************************************************************************)
AfterSweep == pc \in {"close", "summary", "returned", "done"}

\* The decoded properties that carry data, in the order of the frame.
DataProps(props) == SelectSeq(props, LAMBDA q : q[2] > 0)

C4_Counts ==
    /\ pairIdx \in 0..NumPairs
    /\ \A p \in Pairs :
         /\ sendCalls[p] <= 1
         /\ (p < pairIdx => sendCalls[p] = 1)
         /\ (p > pairIdx => sendCalls[p] = 0)
    /\ (pc \in {"send", "recv", "sleep"} => pairIdx < NumPairs)
    /\ (pc = "send" => sendCalls[pairIdx] = 0)
    /\ (pc \in {"recv", "sleep"} => sendCalls[pairIdx] = 1)
    /\ (AfterSweep => pairIdx = NumPairs)
    /\ (AfterSweep => \A p \in Pairs : sendCalls[p] = 1)

\* A step of the program is enabled: each action's guard is its position,
\* and for the outcomes of recvfrom also what waits at the socket.
C4_NotStuck ==
    (pc \notin {"done", "interrupted"}) =>
        \/ pc \in {"start", "send", "sleep", "close", "summary", "returned"}
        \/ DatagramWaiting
        \/ NothingWaiting

\* How far a position is from the end of the run.
PcRank(at) ==
    CASE at = "start" -> 8
      [] at = "send" -> 7
      [] at = "recv" -> 6
      [] at = "sleep" -> 5
      [] at = "close" -> 3
      [] at = "summary" -> 2
      [] at = "returned" -> 1
      [] OTHER -> 0

\* Every step that moves the program brings it nearer to the end.
C4_Progress ==
    (pc' # pc \/ pairIdx' # pairIdx) =>
        4 * (NumPairs - pairIdx') + PcRank(pc') < 4 * (NumPairs - pairIdx) + PcRank(pc)

\* C4: whatever the outcome of each pair (response, timeout, send or receive
\* error, undecodable or truncated response), sendto is called exactly once
\* for each of the 15 pairs, in order, none retried and none skipped, and the
\* sweep goes on to its end: until the run is done the program always has a
\* step to take, every step brings it nearer to the end, and past the loops
\* every pair has been attempted.
C4_FullSweep == [](C4_Counts /\ C4_NotStuck) /\ [][C4_Progress]_vars

\* A completed run whose last pair failed to send, that read an undecodable
\* datagram last and collected readings before.
C4_Witness ==
    /\ pc = "done"
    /\ \A p \in Pairs : sendCalls[p] = 1
    /\ lastOutcome = [pair |-> NumPairs - 1, how |-> "send_error"]
    /\ lastResponse.data = <<16, 129, 0>>
    /\ Len(successful_readings) > 0

\* The pair (Smart Electric Energy Meter, basic properties): the third device
\* with the first property set.
MeterBasicPair == 2 * Len(property_sets)

\* The only datagram of the run answered the basic-properties request to
\* the Smart Electric Energy Meter, within its receive deadline, with
\* operational status ON and a power of 150.
C5_Scenario ==
    /\ pc = "done"
    /\ responses = 1
    /\ lastResponse = [data |-> MeterReply(MeterBasicPair),
                       forPair |-> MeterBasicPair, atPair |-> MeterBasicPair]

\* C5: in that scenario the result is exactly the reading "ON" followed by
\* the reading "150 W", both of the Smart Electric Energy Meter, and no
\* reading of any other identity.
C5_EndToEnd ==
    C5_Scenario =>
        successful_readings =
            << <<"Smart Electric Energy Meter", "EPC 0x80", "ON">>,
               <<"Smart Electric Energy Meter", "EPC 0x84", "150 W">> >>

C5_Witness == C5_Scenario /\ Len(successful_readings) = 2

\* C6 as stated: the request of pair k+1 is sent only after pair k resolved
\* by a received datagram or by the receive deadline.
C6_Original ==
    /\ Cardinality(outstanding) <= 1
    /\ (pc = "recv" /\ pairIdx > 0) =>
         /\ lastOutcome.pair = pairIdx - 1
         /\ lastOutcome.how \in {"received", "timeout"}

\* C6 (amended): at most one request is outstanding at any time; the request
\* of pair k+1 is sent only after pair k resolved, by a received datagram, by
\* the receive deadline, or by an error of sendto or recvfrom.
C6_OneOutstanding ==
    /\ Cardinality(outstanding) <= 1
    /\ (pc = "recv" => outstanding = {pairIdx})
    /\ (pc # "recv" => outstanding = {})
    /\ (pc \in {"send", "recv"} /\ pairIdx > 0) =>
         /\ lastOutcome.pair = pairIdx - 1
         /\ lastOutcome.how \in {"received", "timeout", "send_error", "recv_error"}

\* The request of pair 5 is outstanding; pair 4 resolved by a receive error.
C6_Witness ==
    /\ pc = "recv"
    /\ pairIdx = 5
    /\ outstanding = {5}
    /\ lastOutcome = [pair |-> 4, how |-> "recv_error"]

\* C7: the socket is opened exactly once and closed exactly once, and no
\* way out of the run (completion or interruption) leaves it open.
C7_SocketReleased ==
    /\ opens <= 1
    /\ closes <= 1
    /\ (pc \in {"done", "interrupted"}) => (~sockOpen /\ opens = 1 /\ closes = 1)

C8_Ordered ==
    /\ Len(readingPair) = Len(successful_readings)
    /\ \A i, j \in 1..Len(readingPair) : i <= j => readingPair[i] <= readingPair[j]

C8_Step ==
    LET old == successful_readings
        new == successful_readings'
        n == Len(new) - Len(old)
    IN  /\ n >= 0
        /\ SubSeq(new, 1, Len(old)) = old
        /\ \A i \in (Len(old) + 1)..Len(new) :
             /\ readingPair'[i] = pairIdx
             /\ new[i][1] = DeviceOf(pairIdx)[4]
        /\ n > 0 =>
             LET f == parse_echonet_response(lastResponse'.data)
             IN  /\ f # None
                 /\ [i \in 1..n |-> new[Len(old) + i][2]] =
                      [i \in 1..Len(DataProps(f.props)) |->
                          "EPC 0x" \o Hex02X(DataProps(f.props)[i][1])]

\* C8: the result list only grows by appending; the readings of one response
\* are appended in the order of the properties of its decoded frame, under
\* the name of the pair being attempted; so the pairs of the readings are in
\* non-decreasing order.
C8_ReadingOrder == [](C8_Ordered) /\ [][C8_Step]_vars

\* Readings of two responses read by different pairs, the second response
\* giving two readings.
C8_Witness ==
    /\ Len(successful_readings) = 3
    /\ readingPair[1] < readingPair[2]
    /\ readingPair[2] = readingPair[3]
    /\ successful_readings[2][2] = "EPC 0x80"
    /\ successful_readings[3][2] = "EPC 0x84"

C9_Step ==
    LET n == Len(successful_readings') - Len(successful_readings)
    IN  IF pc = "recv" /\ pc' # "recv" /\ lastOutcome'.how = "received"
        THEN LET f == parse_echonet_response(lastResponse'.data)
             IN  n = IF f = None THEN 0 ELSE Len(DataProps(f.props))
        ELSE n = 0

\* C9: a step appends readings only when it reads a datagram, and then one
\* reading for each property of the decoded frame whose payload length is
\* not 0: none for an empty property, an undecodable datagram, a timeout or
\* an error.
C9_ReadingIffData == [][C9_Step]_vars

\* The response with an empty property and a property with data was read and
\* gave exactly one reading.
C9_Witness ==
    /\ pc = "sleep"
    /\ lastOutcome.how = "received"
    /\ lastResponse.data = ResponseFrame(lastResponse.atPair, 258, 114,
                                         <<129, 0, 211, 2, 255, 246>>, 2)
    /\ Len(successful_readings) = 1
    /\ successful_readings[1][2] = "EPC 0xD3"

\* C10: probe_echonet_device returns True exactly when at least one reading
\* was collected, and main maps True to exit status 0 and False to 1.
C10_ExitStatus ==
    /\ (pc \in {"returned", "done"}) =>
         ((result = "True") <=> (Len(successful_readings) >= 1))
    /\ (pc \in {"returned", "done"}) => result \in {"True", "False"}
    /\ (pc = "done") =>
         /\ (exitCode = 0 <=> Len(successful_readings) >= 1)
         /\ (exitCode # 0 <=> Len(successful_readings) = 0)

C10_Witness ==
    /\ pc = "done"
    /\ exitCode = 0
    /\ Len(successful_readings) = 1

(***************************************************************************)
(* More claims about the codec (checked under CodecSpec)                   *)
(***************************************************************************)
\* C11: the output of create_echonet_packet has byte 11 equal to len(props)
\* and, after the 12-byte header, for each property in order its code, its
\* payload length and exactly that many payload bytes (none for length 0):
\* 12 plus the sum of (2 + payload length) bytes in all.
C11_EncodedLayout ==
    (cpc \in {"encoded", "cut", "parsed"}) =>
        /\ Len(packet) = PropEnd(frame.props, Len(frame.props))
        /\ At(packet, 11) = Len(frame.props)
        /\ \A i \in 1..Len(frame.props) :
             LET at == PropEnd(frame.props, i - 1)
                 pdc == frame.props[i][2]
             IN  /\ At(packet, at) = frame.props[i][1]
                 /\ At(packet, at + 1) = pdc
                 /\ Slice(packet, at + 2, at + 2 + pdc) = SubSeq(frame.props[i], 3, 2 + pdc)
                 /\ PropEnd(frame.props, i) = at + 2 + pdc

\* A frame with an empty property followed by a property of two bytes.
C11_Witness ==
    /\ cpc = "encoded"
    /\ Len(frame.props) = 2
    /\ frame.props[1][2] = 0
    /\ frame.props[2][2] = 2
    /\ Len(packet) = 18

\* C18: on an input of 12 bytes or more, whatever count and payload lengths
\* it declares, the parser reads no byte at an offset >= len(data): its index
\* stays within 12..len(data); it returns at most the declared number of
\* properties, each with a payload of exactly its declared length, and the
\* count field it returns is the declared one even when it parsed fewer.
C18_ParseWithinBounds ==
    (cpc \in {"parsed", "rawparsed"} /\ Len(data) >= 12) =>
        LET loop == ParseProps(data, At(data, 11), 0, 12, <<>>)
        IN  /\ ~loop.raised
            /\ loop.idx \in 12..Len(data)
            /\ parsed # None
            /\ parsed.props = loop.props
            /\ parsed.opc = At(data, 11)
            /\ Len(parsed.props) <= parsed.opc
            /\ \A i \in 1..Len(parsed.props) :
                 Len(parsed.props[i][3]) = parsed.props[i][2]

\* 255 properties declared, one parsed, one byte left over.
C18_Witness ==
    /\ cpc = "rawparsed"
    /\ Len(data) = 15
    /\ parsed # None
    /\ parsed.opc = 255
    /\ Len(parsed.props) = 1

(***************************************************************************)
(* Claims about the interpreter (checked under FormatSpec)                 *)
(***************************************************************************)
Formatted == fpc \in {"formatted", "handled"}

\* The payload read as a big-endian number, most significant byte first.
RECURSIVE BigEndian(_, _)
BigEndian(edt, acc) ==
    IF edt = <<>> THEN acc ELSE BigEndian(Tail(edt), acc * 256 + Head(edt))

\* The two's-complement value of the payload.
TwosComplement(edt) ==
    LET u == BigEndian(edt, 0)
    IN  IF Head(edt) >= 128 THEN u - Pow256(Len(edt)) ELSE u

\* C12: for code 0xD3 and a payload of two or more bytes, the result is
\* "Charging: N W" for N >= 0 and "Discharging: |N| W" for N < 0, N being the
\* payload as a big-endian two's-complement integer; [0x00,0x0A] gives
\* "Charging: 10 W" and [0xFF,0xF6] gives "Discharging: 10 W".
C12_SignedPower ==
    (Formatted /\ fmtIn.epc = 211 /\ Len(fmtIn.edt) >= 2) =>
        LET N == TwosComplement(fmtIn.edt)
        IN  /\ N >= 0 => fmtOut = "Charging: " \o ToString(N) \o " W"
            /\ N < 0  => fmtOut = "Discharging: " \o ToString(0 - N) \o " W"
            /\ fmtIn.edt = <<0, 10>> => fmtOut = "Charging: 10 W"
            /\ fmtIn.edt = <<255, 246>> => fmtOut = "Discharging: 10 W"
            /\ Len(fmtIn.edt) = 2 => N \in -32768..32767

C12_Witness ==
    /\ fpc = "formatted"
    /\ fmtIn = [epc |-> 211, edt |-> <<255, 246>>]
    /\ fmtOut = "Discharging: 10 W"

\* The number of payload bytes each recognized code reads.
ExpectedWidth(epc) ==
    CASE epc = 128 -> 1
      [] epc = 132 -> 2
      [] epc = 133 -> 4
      [] epc = 224 -> 2
      [] epc = 211 -> 2
      [] OTHER -> 0

Recognized(epc) == epc \in {128, 138, 132, 133, 224, 211}

\* C13: for an unrecognized code, and for a recognized code whose payload is
\* shorter than the width the code expects (an empty payload included), the
\* result is the hexadecimal dump of the payload labelled "Raw".
C13_RawFallback ==
    (Formatted /\ (~Recognized(fmtIn.epc) \/ Len(fmtIn.edt) < ExpectedWidth(fmtIn.epc))) =>
        /\ fmtOut = "Raw: " \o hexlify(fmtIn.edt)
        /\ fmtIn = [epc |-> 255, edt |-> <<171, 205>>] => fmtOut = "Raw: abcd"

\* C14: format_property_value raises nothing for any code and payload; a
\* failure inside it comes back as an "Error formatting" string, and the
\* handling of the response goes on to the property that follows.
C14_NeverAborts ==
    /\ Formatted =>
         /\ fmtOut # "<IndexError raised>"
         /\ (fmtIn.epc = 128 /\ fmtIn.edt = <<>>)
                <=> fmtOut = "Error formatting: index out of range"
    /\ fpc = "handled" =>
         /\ Len(fmtList) = IF Len(fmtIn.edt) > 0 THEN 2 ELSE 1
         /\ fmtList[Len(fmtList)] = Reading(DeviceOf(0)[4], 211, "Discharging: 10 W")
         /\ Len(fmtIn.edt) > 0 => fmtList[1] = Reading(DeviceOf(0)[4], fmtIn.epc, fmtOut)

C14_Witness ==
    /\ fpc = "handled"
    /\ fmtIn = [epc |-> 128, edt |-> <<>>]
    /\ fmtOut = "Error formatting: index out of range"
    /\ Len(fmtList) = 1

(***************************************************************************)
(* More claims about the sweep (checked under Spec)                        *)
(***************************************************************************)
\* C15 as stated: after Sent a pair returns to Idle only through Received or
\* TimedOut.
C15_Original ==
    [][(pc = "recv" /\ pc' # "recv") =>
           lastOutcome'.how \in {"received", "timeout"}]_vars

\* One step of a pair: from Idle ("send") by one call of sendto, to Sent
\* ("recv") or, when the call raised, to the end of the pair; from Sent by one
\* completed receive to the end of the pair; from the end of the pair to the
\* next pair, whose datagram has not been sent.
C15_Step ==
    /\ pc = "send" =>
         /\ pairIdx' = pairIdx
         /\ sendCalls' = [sendCalls EXCEPT ![pairIdx] = 1]
         /\ \/ pc' = "recv" /\ lastOutcome' = lastOutcome
            \/ pc' = "sleep" /\ lastOutcome' = [pair |-> pairIdx, how |-> "send_error"]
    /\ pc = "recv" =>
         /\ pairIdx' = pairIdx
         /\ sendCalls' = sendCalls
         /\ \/ pc' = "recv" /\ lastOutcome' = lastOutcome
            \/ /\ pc' = "sleep"
               /\ lastOutcome'.pair = pairIdx
               /\ lastOutcome'.how \in {"received", "timeout", "recv_error"}
    /\ pc = "sleep" =>
         /\ sendCalls' = sendCalls
         /\ lastOutcome' = lastOutcome
         /\ \/ pc' \in {"sleep", "interrupted"} /\ pairIdx' = pairIdx
            \/ pc' = "send" /\ pairIdx' = pairIdx + 1 /\ sendCalls[pairIdx'] = 0
            \/ pc' = "close" /\ pairIdx' = NumPairs

\* C15 (amended): every pair goes Idle -> Sent -> {Received | TimedOut |
\* Failed} -> Idle, or Idle -> Failed -> Idle when sendto raises; it calls
\* sendto once, completes at most one receive, and never sends again before
\* the next pair starts.
C15_PairMachine ==
    /\ [](\A p \in Pairs : sendCalls[p] <= 1)
    /\ [](pc \in {"send", "recv"} => lastOutcome.pair = pairIdx - 1)
    /\ [][C15_Step]_vars

\* Pair 2 was sent once and ended by an error of recvfrom.
C15_Witness ==
    /\ pc = "sleep"
    /\ pairIdx = 2
    /\ sendCalls[2] = 1
    /\ lastOutcome = [pair |-> 2, how |-> "recv_error"]

Unsuccessful == {"timeout", "send_error", "recv_error"}

\* C16: a pair that ends in a timeout or a transport error records nothing:
\* no Reading comes from it and no step of it changes the collection; the
\* sweep then proceeds to the next pair with the collection as it was.
C16_NothingRecorded ==
    /\ []((pc = "sleep" /\ lastOutcome.how \in Unsuccessful) =>
            /\ lastOutcome.pair = pairIdx
            /\ \A i \in 1..Len(readingPair) : readingPair[i] < pairIdx
            /\ Len(readingPair) = Len(successful_readings))
    /\ [][/\ (pc \in {"send", "recv"} /\ ~(pc' = "sleep" /\ lastOutcome'.how = "received")) =>
               successful_readings' = successful_readings
          /\ (pc = "sleep" /\ pc' \notin {"sleep", "interrupted"}) =>
               /\ pairIdx' = pairIdx + 1
               /\ successful_readings' = successful_readings]_vars

\* Pair 0 recorded two readings, pair 1 timed out and the sweep is at pair 2
\* with those two readings.
C16_Witness ==
    /\ pc = "send"
    /\ pairIdx = 2
    /\ lastOutcome = [pair |-> 1, how |-> "timeout"]
    /\ Len(successful_readings) = 2
    /\ readingPair = <<0, 0>>

\* C17: every Reading is labelled with the identity the request that elicited
\* its response was addressed to, whatever the network does to the datagrams.
C17_LabelledByAddressee ==
    [][(pc = "recv" /\ pc' = "sleep" /\ lastOutcome'.how = "received") =>
          \A i \in (Len(successful_readings) + 1)..Len(successful_readings') :
              successful_readings'[i][1] = DeviceOf(lastResponse'.forPair)[4]]_vars
====
